---- MODULE Spec2Model ----
(***************************************************************************)
(* Model of the ChatGPT export tools:                                      *)
(*   chatgpt_json_to_markdown.py   (records -> Markdown documents)         *)
(*   obsidian_chatgpt_organizer.py (Markdown -> segments, tags, summary)   *)
(* Text is a sequence of one-character strings; offsets are 0-based as in  *)
(* Python.                                                                 *)
(***************************************************************************)
EXTENDS Integers, Sequences, FiniteSets, TLC

VARIABLES
    stage,          \* position of the program in the operation being run
    md_content,     \* organizer: text of the Markdown file being processed
    content_parts,  \* organizer: result of split_content_by_topics
    max_length,     \* organizer: max_length argument of generate_summary
    summary,        \* organizer: result of generate_summary
    part_index,     \* organizer: number of parts of content_parts handled
    topic_scores,   \* organizer: topic_scores of extract_tags_from_content
    tags,           \* organizer: result of extract_tags_from_content
    flat_message,   \* converter: argument of _get_message_content
    flat_content,   \* converter: value returned by _get_message_content
    json_data,      \* converter: the value given to process_conversations
    data,           \* converter: the entries `for entry in data` goes through
    filter_before_year, \* converter: config['filter_before_year']
    idx,            \* converter: number of entries of data handled so far
    processed,      \* converter: counter of documents written
    skipped,        \* converter: counter of entries skipped
    skipped_old,    \* converter: counter of entries excluded as too old
    files,          \* converter: the output directory, file name -> content
    writes,         \* converter: the file names written, in order
    handled,        \* converter: locals of the last loop iteration
    returned        \* converter: the pair process_conversations returned

tagVars == <<part_index, topic_scores, tags>>
orgVars == <<stage, md_content, content_parts, max_length, summary, tagVars>>
flatVars == <<flat_message, flat_content>>
convVars == <<json_data, data, filter_before_year, idx, processed, skipped,
              skipped_old, files, writes, handled, returned>>
vars == <<orgVars, flatVars, convVars>>

----------------------------------------------------------------------------
(* Bounds *)

MaxPieces == 5      \* pieces concatenated into a segmenter input document
MaxSumPieces == 5   \* pieces concatenated into a generate_summary input
MaxParts == 2       \* items of a `parts` or list content of a message
MaxNodes == 2       \* nodes of the mapping of an input record
MaxTagPieces == 4   \* pieces concatenated into a tagger input text
MaxLinePieces == 3  \* pieces concatenated into the line of a round-trip turn
MaxEntries == 3     \* entries of the list given to process_conversations

----------------------------------------------------------------------------
(* Python string primitives *)

Min(S) == CHOOSE x \in S : \A y \in S : x <= y
Max(S) == CHOOSE x \in S : \A y \in S : x >= y

UPPER == <<"A","B","C","D","E","F","G","H","I","J","K","L","M",
           "N","O","P","Q","R","S","T","U","V","W","X","Y","Z">>
LOWER == <<"a","b","c","d","e","f","g","h","i","j","k","l","m",
           "n","o","p","q","r","s","t","u","v","w","x","y","z">>

LowerChar(c) ==
    IF \E i \in 1..26 : UPPER[i] = c
    THEN LOWER[CHOOSE i \in 1..26 : UPPER[i] = c]
    ELSE c

\* str.lower()
Lower(s) == [i \in 1..Len(s) |-> LowerChar(s[i])]

\* characters str.strip() removes
IsSpace(c) == c \in {" ", "\n", "\t", "\r", "\f"}

\* s[a:b] for 0 <= a
Slice(s, a, b) == SubSeq(s, a + 1, IF b > Len(s) THEN Len(s) ELSE b)

\* p occurs in s at 0-based offset i
MatchAt(s, p, i) ==
    /\ i >= 0
    /\ i + Len(p) <= Len(s)
    /\ \A k \in 1..Len(p) : s[i + k] = p[k]

\* s.find(p, start)
Find(s, p, start) ==
    LET cands == {i \in start..(Len(s) - Len(p)) : MatchAt(s, p, i)}
    IN  IF cands = {} THEN -1 ELSE Min(cands)

\* s.rfind(p, start, end)
RFind(s, p, start, end) ==
    LET lim   == IF end > Len(s) THEN Len(s) ELSE end
        cands == {i \in start..(lim - Len(p)) : MatchAt(s, p, i)}
    IN  IF cands = {} THEN -1 ELSE Max(cands)

\* p in s
Contains(s, p) == Find(s, p, 0) # -1

\* s.strip() is non-empty, i.e. bool(s.strip())
NonBlank(s) == \E i \in 1..Len(s) : ~IsSpace(s[i])

\* s.strip()
Strip(s) ==
    IF ~NonBlank(s) THEN <<>>
    ELSE LET nb == {i \in 1..Len(s) : ~IsSpace(s[i])}
         IN  SubSeq(s, Min(nb), Max(nb))

RECURSIVE Join(_)
\* "".join(parts)
Join(ps) == IF ps = <<>> THEN <<>> ELSE Head(ps) \o Join(Tail(ps))

----------------------------------------------------------------------------
(* obsidian_chatgpt_organizer.py: segmenter *)

TOPIC_TRANSITION_PHRASES == <<
    <<"n","o","w"," ","l","e","t","'","s"," ","s","w","i","t","c","h"," ","t","o">>,
    <<"m","o","v","i","n","g"," ","o","n"," ","t","o">>,
    <<"l","e","t","'","s"," ","c","h","a","n","g","e"," ","t","h","e"," ","s","u","b","j","e","c","t">>,
    <<"o","n"," ","a"," ","d","i","f","f","e","r","e","n","t"," ","t","o","p","i","c">>,
    <<"s","w","i","t","c","h","i","n","g"," ","g","e","a","r","s">>,
    <<"l","e","t","'","s"," ","t","a","l","k"," ","a","b","o","u","t"," ","s","o","m","e","t","h","i","n","g"," ","e","l","s","e">>,
    <<"c","h","a","n","g","i","n","g"," ","t","h","e"," ","s","u","b","j","e","c","t">>,
    <<"n","e","w"," ","t","o","p","i","c",":">>,
    <<"r","e","g","a","r","d","i","n","g"," ","y","o","u","r"," ","o","t","h","e","r"," ","q","u","e","s","t","i","o","n">>,
    <<"t","o"," ","a","d","d","r","e","s","s"," ","y","o","u","r"," ","n","e","x","t"," ","p","o","i","n","t">>,
    <<"o","n"," ","a","n","o","t","h","e","r"," ","n","o","t","e">> >>

\* the turn-start marker "\n\n**" (the regex \n\n\*\* and the rfind argument)
TURN_MARKER == <<"\n", "\n", "*", "*">>

RECURSIVE ReSplitMarker(_)
\* re.split(r'\n\n\*\*', content): leftmost, non-overlapping
ReSplitMarker(s) ==
    LET i == Find(s, TURN_MARKER, 0)
    IN  IF i = -1 THEN <<s>>
        ELSE <<Slice(s, 0, i)>> \o ReSplitMarker(Slice(s, i + 4, Len(s)))

\* index of the first phrase of the list contained in message_lower, 0 if none
FirstPhrase(message_lower) ==
    LET hits == {k \in 1..Len(TOPIC_TRANSITION_PHRASES) :
                    Contains(message_lower, TOPIC_TRANSITION_PHRASES[k])}
    IN  IF hits = {} THEN 0 ELSE Min(hits)

RECURSIVE TransitionLoop(_, _, _, _, _)
\* the for loop of detect_topic_transitions; i is enumerate's 0-based index
TransitionLoop(content, messages, i, current_index, transitions) ==
    IF i >= Len(messages) THEN transitions
    ELSE
        LET message       == messages[i + 1]
            message_lower == Lower(message)
            k             == FirstPhrase(message_lower)
            msg_start     == Find(content, message, current_index)
            phrase_pos    == msg_start
                             + Find(message_lower, TOPIC_TRANSITION_PHRASES[k], 0)
            next_trans    == IF i > 0 /\ k # 0
                             THEN Append(transitions, phrase_pos)
                             ELSE transitions
        IN  TransitionLoop(content, messages, i + 1,
                           msg_start + Len(message), next_trans)

detect_topic_transitions(content) ==
    TransitionLoop(content, ReSplitMarker(content), 0, 0, <<>>)

RECURSIVE CutLoop_AtPhrase(_, _, _, _)
\* mutant of CutLoop: cuts at the phrase offset instead of the turn start
CutLoop_AtPhrase(content, transitions, start, parts) ==
    IF transitions = <<>> THEN Append(parts, Slice(content, start, Len(content)))
    ELSE
        LET pos == Head(transitions)
        IN  CutLoop_AtPhrase(content, Tail(transitions), pos,
                             Append(parts, Slice(content, start, pos)))

RECURSIVE CutLoop(_, _, _, _)
\* the for loop of split_content_by_topics plus the final section
CutLoop(content, transitions, start, parts) ==
    IF transitions = <<>> THEN Append(parts, Slice(content, start, Len(content)))
    ELSE
        LET pos   == Head(transitions)
            found == RFind(content, TURN_MARKER, 0, pos)
            message_start == IF found = -1 THEN 0 ELSE found
        IN  CutLoop(content, Tail(transitions), message_start,
                    Append(parts, Slice(content, start, message_start)))

\* mutant of DropBlank: keeps every part
DropBlank_KeepAll(parts) == parts

\* [part for part in parts if part.strip()]
DropBlank(parts) == SelectSeq(parts, NonBlank)

split_content_by_topics(content) ==
    LET transitions == detect_topic_transitions(content)
    IN  IF transitions = <<>> THEN <<content>>
        ELSE DropBlank(CutLoop(content, transitions, 0, <<>>))

----------------------------------------------------------------------------
(* obsidian_chatgpt_organizer.py: summary *)

STARS == <<"*", "*">>
STARS_COLON == <<"*", "*", ":">>
ELLIPSIS == <<".", ".", ".">>
FALLBACK_SUMMARY == <<"C","h","a","t","G","P","T"," ",
                      "C","o","n","v","e","r","s","a","t","i","o","n">>

\* lengths n >= 1 of a run of non-star characters at offset j followed by "**:"
\* (the part [^*]+\*\*: of both regexes)
NameLens(s, j) ==
    {n \in 1..(Len(s) - j) :
        /\ \A k \in 1..n : s[j + k] # "*"
        /\ MatchAt(s, STARS_COLON, j + n)}

\* lengths w >= 0 of a run of whitespace at offset j (the part \s*)
SpaceLens(s, j) ==
    {w \in 0..(Len(s) - j) : \A k \in 1..w : IsSpace(s[j + k])}

\* lengths g >= 0 of a run of non-newline characters at offset j followed by
\* a newline (the part (.*?)\n)
GroupLens(s, j) ==
    {g \in 0..(Len(s) - j - 1) :
        /\ \A k \in 1..g : s[j + k] # "\n"
        /\ s[j + g + 1] = "\n"}

\* the regex \*\*[^*]+\*\*:\s*(.*?)\n tried at offset i in backtracking order:
\* [^*]+ and \s* greedy (longest first), (.*?) lazy (shortest first)
QueryMatchAt(s, i) ==
    IF ~MatchAt(s, STARS, i) THEN [matched |-> FALSE, group |-> <<>>]
    ELSE
        LET okW(n) == {w \in SpaceLens(s, i + 2 + n + 3) :
                          GroupLens(s, i + 2 + n + 3 + w) # {}}
            okN    == {n \in NameLens(s, i + 2) : okW(n) # {}}
        IN  IF okN = {} THEN [matched |-> FALSE, group |-> <<>>]
            ELSE LET n  == Max(okN)
                     w  == Max(okW(n))
                     g0 == i + 2 + n + 3 + w
                     g  == Min(GroupLens(s, g0))
                 IN  [matched |-> TRUE, group |-> Slice(s, g0, g0 + g)]

\* re.search(r'\*\*[^*]+\*\*:\s*(.*?)\n', content): leftmost match
UserQuerySearch(s) ==
    LET starts == {i \in 0..Len(s) : QueryMatchAt(s, i).matched}
    IN  IF starts = {} THEN [matched |-> FALSE, group |-> <<>>]
        ELSE QueryMatchAt(s, Min(starts))

\* re.sub(r'^\*\*[^*]+\*\*:\s*', '', first_line)
StripAuthorTag(s) ==
    IF ~MatchAt(s, STARS, 0) \/ NameLens(s, 2) = {} THEN s
    ELSE LET n == Max(NameLens(s, 2))
             w == Max(SpaceLens(s, 2 + n + 3))
         IN  Slice(s, 2 + n + 3 + w, Len(s))

\* content.split('\n', 1)[0]
FirstLine(s) ==
    LET i == Find(s, <<"\n">>, 0)
    IN  IF i = -1 THEN s ELSE Slice(s, 0, i)

\* mutant of Truncate: marks a text of exactly max_length as truncated
Truncate_AtLimit(s, n) ==
    Slice(s, 0, n) \o (IF Len(s) >= n THEN ELLIPSIS ELSE <<>>)

\* text[:max_length] + ('...' if len(text) > max_length else '')
Truncate(s, n) ==
    Slice(s, 0, n) \o (IF Len(s) > n THEN ELLIPSIS ELSE <<>>)

generate_summary(content, maxlen) ==
    LET user_query_match == UserQuerySearch(content)
        first_line       == Strip(FirstLine(content))
    IN  IF user_query_match.matched
        THEN Truncate(Strip(user_query_match.group), maxlen)
        ELSE IF first_line # <<>>
        THEN Truncate(IF MatchAt(first_line, STARS, 0)
                      THEN StripAuthorTag(first_line)
                      ELSE first_line, maxlen)
        ELSE FALLBACK_SUMMARY

----------------------------------------------------------------------------
(* JSON values as the converter sees them after json.load: a tag t and a   *)
(* value v. A dict is the sequence of its <<key, value>> items in          *)
(* insertion order; a string is its sequence of characters.                *)

JNull      == [t |-> "null", v |-> 0]
JNum(n)    == [t |-> "num",  v |-> n]
JStr(s)    == [t |-> "str",  v |-> s]
JList(xs)  == [t |-> "list", v |-> xs]
JDict(kvs) == [t |-> "dict", v |-> kvs]

IsDict(x) == x.t = "dict"
IsStr(x)  == x.t = "str"
IsNum(x)  == x.t = "num"

\* bool(x)
Truthy(x) ==
    CASE x.t = "null" -> FALSE
      [] x.t = "num"  -> x.v # 0
      [] OTHER        -> x.v # <<>>

\* key in d
HasKey(d, k) == \E i \in 1..Len(d.v) : d.v[i][1] = k

\* d[key]
GetKey(d, k) == d.v[CHOOSE i \in 1..Len(d.v) : d.v[i][1] = k][2]

\* d.get(key, default)
GetOr(d, k, default) == IF HasKey(d, k) THEN GetKey(d, k) ELSE default

\* d[key] = value
SetKey(d, k, val) ==
    IF HasKey(d, k)
    THEN JDict([i \in 1..Len(d.v) |->
                  IF d.v[i][1] = k THEN <<k, val>> ELSE d.v[i]])
    ELSE JDict(Append(d.v, <<k, val>>))

DIGITS == <<"0", "1", "2", "3", "4", "5", "6", "7", "8", "9">>

RECURSIVE NatStr(_)
\* str(n) for n >= 0
NatStr(n) ==
    IF n < 10 THEN <<DIGITS[n + 1]>>
    ELSE NatStr(n \div 10) \o <<DIGITS[(n % 10) + 1]>>

\* str(x) of a scalar
PyStr(x) ==
    CASE x.t = "str"  -> x.v
      [] x.t = "num"  -> IF x.v < 0 THEN <<"-">> \o NatStr(-x.v) ELSE NatStr(x.v)
      [] x.t = "null" -> <<"N", "o", "n", "e">>

RECURSIVE JoinNL(_)
\* "\n".join(lines)
JoinNL(lines) ==
    IF lines = <<>> THEN <<>>
    ELSE IF Len(lines) = 1 THEN lines[1]
    ELSE lines[1] \o <<"\n">> \o JoinNL(Tail(lines))

----------------------------------------------------------------------------
(* chatgpt_json_to_markdown.py: content flattening *)

CONTENT_ERROR == <<"[","C","o","n","t","e","n","t"," ","e","x","t","r","a","c",
                   "t","i","o","n"," ","e","r","r","o","r","]">>
UNKNOWN_FORMAT == <<"[","M","e","s","s","a","g","e"," ","c","o","n","t","e","n",
                    "t"," ","i","n"," ","u","n","k","n","o","w","n"," ","f","o",
                    "r","m","a","t","]">>
CONTENT_OF_TYPE == <<"C","o","n","t","e","n","t"," ","o","f"," ","t","y","p","e",
                     ":"," ">>
NO_DETAILS == <<"C","o","n","t","e","x","t"," ","i","n","f","o","r","m","a","t",
                "i","o","n"," ","(","n","o"," ","d","e","t","a","i","l","s"," ",
                "a","v","a","i","l","a","b","l","e",")">>
USER_EDITABLE_CONTEXT == <<"u","s","e","r","_","e","d","i","t","a","b","l","e",
                           "_","c","o","n","t","e","x","t">>

\* the items a for loop over x visits; iterating None or a number raises
Iterable(x) == x.t \in {"list", "str", "dict"}
Items(x) ==
    CASE x.t = "list" -> x.v
      [] x.t = "str"  -> [i \in 1..Len(x.v) |-> JStr(<<x.v[i]>>)]
      [] x.t = "dict" -> [i \in 1..Len(x.v) |-> JStr(<<"k">>)]

\* part["text"] if isinstance(part, dict) and "text" in part else str(part)
PartText(part) ==
    IF IsDict(part) /\ HasKey(part, "text") THEN GetKey(part, "text")
    ELSE JStr(PyStr(part))

\* "\n".join(... for part in parts if part); a TypeError (parts not
\* iterable, an item that is not a string) is caught by the except clause
JoinParts(parts) ==
    IF ~Iterable(parts) THEN JStr(CONTENT_ERROR)
    ELSE LET kept  == SelectSeq(Items(parts), Truthy)
             texts == [i \in 1..Len(kept) |-> PartText(kept[i])]
         IN  IF \E i \in 1..Len(texts) : ~IsStr(texts[i])
             THEN JStr(CONTENT_ERROR)
             ELSE JStr(JoinNL([i \in 1..Len(texts) |-> texts[i].v]))

\* "\n".join(str(item) for item in content if item)
JoinItems(content) ==
    LET kept == SelectSeq(content.v, Truthy)
    IN  JStr(JoinNL([i \in 1..Len(kept) |-> PyStr(kept[i])]))

\* the branch of _get_message_content for a dict content
DictContent(content) ==
    IF HasKey(content, "parts") THEN JoinParts(GetKey(content, "parts"))
    ELSE IF HasKey(content, "text") THEN GetKey(content, "text")
    ELSE IF HasKey(content, "result") THEN GetKey(content, "result")
    ELSE IF HasKey(content, "content_type")
    THEN IF GetKey(content, "content_type") = JStr(USER_EDITABLE_CONTEXT)
         THEN GetOr(content, "user_profile", JStr(NO_DETAILS))
         ELSE JStr(CONTENT_OF_TYPE \o PyStr(GetKey(content, "content_type")))
    ELSE LET fields      == [i \in 1..Len(content.v) |-> content.v[i][2]]
             text_fields == SelectSeq(fields, LAMBDA f : IsStr(f) /\ Len(f.v) > 0)
         IN  IF text_fields # <<>>
             THEN JStr(JoinNL([i \in 1..Len(text_fields) |-> text_fields[i].v]))
             ELSE JStr(UNKNOWN_FORMAT)

\* the alternative fields tried when the message has no "content"
AltContent(msg) ==
    IF HasKey(msg, "text") THEN JStr(PyStr(GetKey(msg, "text")))
    ELSE IF HasKey(msg, "value") THEN JStr(PyStr(GetKey(msg, "value")))
    ELSE IF HasKey(msg, "body") THEN JStr(PyStr(GetKey(msg, "body")))
    ELSE JStr(<<>>)

\* the value returned; it is a JSON value because some branches return a
\* field of the input as it is
_get_message_content(msg) ==
    IF ~Truthy(msg) \/ ~IsDict(msg) THEN JStr(<<>>)
    ELSE IF ~HasKey(msg, "content") THEN AltContent(msg)
    ELSE LET content == GetKey(msg, "content")
         IN  CASE content.t = "str"  -> content
               [] content.t = "dict" -> DictContent(content)
               [] content.t = "list" -> JoinItems(content)
               [] OTHER              -> JStr(PyStr(content))

----------------------------------------------------------------------------
(* chatgpt_json_to_markdown.py: timestamps and dates *)

\* the strings dateutil's parser.parse is given here: an ISO date parses to
\* its epoch seconds, anything else raises ValueError (ok = FALSE)
DATE_2019 == <<"2","0","1","9","-","0","6","-","0","1">>
ParseDate(str) ==
    IF str = DATE_2019 THEN [ok |-> TRUE, ts |-> 1559347200]
    ELSE [ok |-> FALSE, ts |-> 0]

\* the calendar date of day number days since 1970-01-01 (proleptic Gregorian)
CivilFromDays(days) ==
    LET z   == days + 719468
        era == z \div 146097
        doe == z - era * 146097
        yoe == (doe - doe \div 1460 + doe \div 36524 - doe \div 146096) \div 365
        doy == doe - (365 * yoe + yoe \div 4 - yoe \div 100)
        mp  == (5 * doy + 2) \div 153
        dd  == doy - (153 * mp + 2) \div 5 + 1
        mm  == IF mp < 10 THEN mp + 3 ELSE mp - 9
    IN  [year |-> yoe + era * 400 + (IF mm <= 2 THEN 1 ELSE 0),
         month |-> mm, day |-> dd]

\* datetime.fromtimestamp(ts), with UTC as the local time zone
FromTimestamp(ts) ==
    LET date == CivilFromDays(ts \div 86400)
        secs == ts % 86400
    IN  [year |-> date.year, month |-> date.month, day |-> date.day,
         hour |-> secs \div 3600, minute |-> (secs % 3600) \div 60,
         second |-> secs % 60]

\* datetime.fromtimestamp(ts).year
YearOf(ts) == FromTimestamp(ts).year

Pad2(n) == <<DIGITS[(n \div 10) + 1], DIGITS[(n % 10) + 1]>>
Pad4(n) == Pad2(n \div 100) \o Pad2(n % 100)

\* strftime with config['date_format'], "%Y-%m-%d"
FormatDate(ts) ==
    LET dt == FromTimestamp(ts)
    IN  Pad4(dt.year) \o <<"-">> \o Pad2(dt.month) \o <<"-">> \o Pad2(dt.day)

\* strftime("%Y-%m-%d %H:%M:%S")
FormatDateTime(ts) ==
    LET dt == FromTimestamp(ts)
    IN  FormatDate(ts) \o <<" ">> \o Pad2(dt.hour) \o <<":">>
        \o Pad2(dt.minute) \o <<":">> \o Pad2(dt.second)

\* isinstance(value, (int, float)) and value > 0
IsPositiveNum(value) == IsNum(value) /\ value.v > 0

\* one step of the loop over the alternative fields: the value it returns,
\* or JNull to go on with the next field
AltTime(msg, field) ==
    IF ~HasKey(msg, field) THEN JNull
    ELSE LET value == GetKey(msg, field)
         IN  IF IsPositiveNum(value) THEN value
             ELSE IF IsStr(value) /\ ParseDate(value.v).ok
             THEN JNum(ParseDate(value.v).ts)
             ELSE JNull

TIME_FIELDS == <<"timestamp", "time", "created_at", "date">>

\* the resolved timestamp of a message, JNull for None
get_create_time_safely(msg) ==
    IF ~IsDict(msg) THEN JNull
    ELSE IF HasKey(msg, "create_time") /\ IsPositiveNum(GetKey(msg, "create_time"))
    THEN GetKey(msg, "create_time")
    ELSE LET hits == {i \in 1..Len(TIME_FIELDS) :
                         AltTime(msg, TIME_FIELDS[i]) # JNull}
         IN  IF hits = {} THEN JNull ELSE AltTime(msg, TIME_FIELDS[Min(hits)])

----------------------------------------------------------------------------
(* chatgpt_json_to_markdown.py: process_conversations *)

\* main()'s default configuration
USER_NAME == <<"U","s","e","r">>
ASSISTANT_NAME == <<"C","h","a","t","G","P","T">>
MESSAGE_SEPARATOR == <<"\n", "\n">>
SKIP_EMPTY_MESSAGES == TRUE

ROLE_USER == <<"u","s","e","r">>
ROLE_UNKNOWN == <<"u","n","k","n","o","w","n">>
UNTITLED == <<"U","n","t","i","t","l","e","d"," ","C","o","n","v","e","r","s",
              "a","t","i","o","n">>
ID_OPEN == <<"<","s","u","b",">","C","o","n","v","e","r","s","a","t","i","o",
             "n"," ","I","D",":"," ">>
TIME_OPEN == <<"<","s","u","b",">","C","r","e","a","t","i","o","n"," ","t","i",
               "m","e",":"," ">>
SUB_CLOSE == <<"<","/","s","u","b",">">>
MD_SUFFIX == <<".","m","d">>

\* the record a handled entry leaves behind
Handled(outcome, msgs, ctime, name, doc, shown) ==
    [outcome |-> outcome, turns |-> msgs, create_time |-> ctime,
     file_name |-> name, document |-> doc, rendered |-> shown]

\* the except clause without its `skipped += 1`
Dropped_Uncounted(outcome) == Handled("none", <<>>, JNull, <<>>, <<>>, <<>>)

\* `continue` or the except clause before any message was collected
Dropped(outcome) == Handled(outcome, <<>>, JNull, <<>>, <<>>, <<>>)

\* conversation_create_time after the string check
ConversationTime(entry) ==
    LET raw == GetOr(entry, "create_time", JNull)
    IN  IF IsStr(raw)
        THEN IF ParseDate(raw.v).ok THEN JNum(ParseDate(raw.v).ts) ELSE JNull
        ELSE raw

\* the loop over mapping.items(): the messages kept, each with the message
\* as it was in the input (raw), its position, and the author normalised
RECURSIVE CollectMessages(_, _)
CollectMessages(items, pos) ==
    IF items = <<>> THEN <<>>
    ELSE LET item == Head(items)[2]
             rest == CollectMessages(Tail(items), pos + 1)
             msg  == GetKey(item, "message")
         IN  IF ~IsDict(item) \/ ~HasKey(item, "message") THEN rest
             ELSE IF msg = JNull \/ ~IsDict(msg) THEN rest
             ELSE <<[raw |-> msg, pos |-> pos,
                     msg |-> IF ~HasKey(msg, "author")
                                \/ ~IsDict(GetKey(msg, "author"))
                             THEN SetKey(msg, "author",
                                    JDict(<< <<"role", JStr(ROLE_UNKNOWN)>> >>))
                             ELSE msg]>> \o rest

\* mutant of SortKey: the resolved timestamp of the message, 0 if none
SortKey_Resolved(msg) ==
    IF get_create_time_safely(msg) = JNull THEN JNum(0)
    ELSE get_create_time_safely(msg)

\* key=lambda x: x.get("create_time", 0) or 0
SortKey(msg) ==
    LET value == GetOr(msg, "create_time", JNum(0))
    IN  IF Truthy(value) THEN value ELSE JNum(0)

RECURSIVE InsertSorted(_, _)
\* x put after every element whose key is not greater (a stable sort)
InsertSorted(sorted, x) ==
    IF sorted = <<>> THEN <<x>>
    ELSE IF SortKey(x.msg).v < SortKey(Head(sorted).msg).v
    THEN <<x>> \o sorted
    ELSE <<Head(sorted)>> \o InsertSorted(Tail(sorted), x)

RECURSIVE SortMessages(_)
\* messages.sort(key=...), for numeric keys
SortMessages(msgs) ==
    IF msgs = <<>> THEN <<>>
    ELSE InsertSorted(SortMessages(SubSeq(msgs, 1, Len(msgs) - 1)),
                      msgs[Len(msgs)])

\* the sort compares keys of different types: TypeError
SortRaises(msgs) ==
    Len(msgs) >= 2 /\ \E i \in 1..Len(msgs) : ~IsNum(SortKey(msgs[i].msg))

\* not title or title.strip() == ""; a title that is not a string raises
TitleRaises(title) == Truthy(title) /\ ~IsStr(title)
TitleBlank(title) == ~Truthy(title) \/ ~NonBlank(title.v)

\* content.split('\n')[0][:50] of a non-string content raises
FirstTitleRaises(first_message) ==
    LET flat == _get_message_content(first_message)
    IN  Truthy(flat) /\ ~IsStr(flat)

_get_title(title, first_message) ==
    IF ~TitleBlank(title) THEN title.v
    ELSE LET flat == _get_message_content(first_message)
             first_line == Slice(FirstLine(flat.v), 0, 50)
         IN  IF Truthy(first_message) /\ IsDict(first_message) /\ Truthy(flat)
             THEN IF Len(first_line) > 3 THEN first_line ELSE UNTITLED
             ELSE UNTITLED

\* c.isalnum()
IsAlnum(c) ==
    \/ \E i \in 1..26 : UPPER[i] = c \/ LOWER[i] = c
    \/ \E i \in 1..10 : DIGITS[i] = c

\* s.rstrip()
RStrip(s) ==
    IF ~NonBlank(s) THEN <<>>
    ELSE SubSeq(s, 1, Max({i \in 1..Len(s) : ~IsSpace(s[i])}))

\* ''.join(c for c in title if c.isalnum() or c in [' ', '_', '-']).rstrip()
Sanitize(title) ==
    RStrip(SelectSeq(title, LAMBDA c : IsAlnum(c) \/ c \in {" ", "_", "-"}))

\* s.replace(' ', '_')
Underscored(s) == [i \in 1..Len(s) |-> IF s[i] = " " THEN "_" ELSE s[i]]

FileName(date_str, inferred_title) ==
    (IF date_str # <<>> THEN date_str \o <<"_">> ELSE <<>>)
    \o Underscored(Sanitize(inferred_title)) \o MD_SUFFIX

\* title line and metadata lines
Header(date_str, inferred_title, conversation_id, ctime) ==
    <<"#", " ">>
    \o (IF date_str # <<>> THEN date_str \o <<" ">> ELSE <<>>)
    \o inferred_title \o MESSAGE_SEPARATOR
    \o ID_OPEN \o PyStr(conversation_id) \o SUB_CLOSE \o MESSAGE_SEPARATOR
    \o (IF IsPositiveNum(ctime)
        THEN TIME_OPEN \o FormatDateTime(ctime.v) \o SUB_CLOSE
             \o MESSAGE_SEPARATOR
        ELSE <<>>)

\* the role itself used as the display name
AuthorName_Role(msg) ==
    GetOr(GetOr(msg, "author", JDict(<<>>)), "role", JStr(ROLE_UNKNOWN)).v

\* author_role = message.get("author", {}).get("role", "unknown") and the
\* display name chosen for it
AuthorName(msg) ==
    IF GetOr(GetOr(msg, "author", JDict(<<>>)), "role", JStr(ROLE_UNKNOWN))
       = JStr(ROLE_USER)
    THEN USER_NAME ELSE ASSISTANT_NAME

\* the turns appended by the loop over messages; a content that is not a
\* string makes msg_content.strip() raise and the turn is left out
RECURSIVE RenderTurns(_)
RenderTurns(msgs) ==
    IF msgs = <<>> THEN <<>>
    ELSE LET flat == _get_message_content(Head(msgs).msg)
             rest == RenderTurns(Tail(msgs))
         IN  IF ~IsStr(flat) THEN rest
             ELSE IF ~SKIP_EMPTY_MESSAGES \/ NonBlank(flat.v)
             THEN <<[raw |-> Head(msgs).raw, pos |-> Head(msgs).pos,
                     name |-> AuthorName(Head(msgs).msg),
                     text |-> flat.v]>> \o rest
             ELSE rest

RECURSIVE Body(_)
\* content += f"**{author_name}**: {msg_content}{separator}" for each turn
Body(shown) ==
    IF shown = <<>> THEN <<>>
    ELSE STARS \o Head(shown).name \o STARS_COLON \o <<" ">>
         \o Head(shown).text \o MESSAGE_SEPARATOR \o Body(Tail(shown))

\* len(content.strip()) < 10
TooShort(doc) == Len(Strip(doc)) < 10

\* The loop body of process_conversations, stage by stage; each stage takes
\* the values the stages before it have computed.

\* lines 334-390: the file name, the length guard and the write request
ProcessRendered(msgs, ctime, date_str, inferred_title, doc, shown) ==
    IF TooShort(doc)
    THEN Handled("skipped", msgs, ctime, <<>>, doc, shown)
    ELSE Handled("processed", msgs, ctime,
                 FileName(date_str, inferred_title), doc, shown)

\* lines 342-375: the header and the body of the document
ProcessTitled(msgs, ctime, date_str, inferred_title, conversation_id, shown) ==
    ProcessRendered(msgs, ctime, date_str, inferred_title,
                    Header(date_str, inferred_title, conversation_id, ctime)
                    \o Body(shown),
                    shown)

\* lines 306-331: the second year filter, the title and the date string
ProcessTimed(cutoff, title, conversation_id, msgs, ctime) ==
    IF IsPositiveNum(ctime) /\ YearOf(ctime.v) < cutoff
    THEN Handled("skipped_old", msgs, ctime, <<>>, <<>>, <<>>)
    ELSE IF TitleRaises(title)
            \/ (TitleBlank(title) /\ FirstTitleRaises(msgs[1].msg))
    THEN Handled("skipped", msgs, ctime, <<>>, <<>>, <<>>)
    ELSE ProcessTitled(msgs, ctime,
                       IF IsPositiveNum(ctime) THEN FormatDate(ctime.v)
                                               ELSE <<>>,
                       _get_title(title, msgs[1].msg),
                       conversation_id,
                       RenderTurns(msgs))

\* lines 296-304: the time of the first sorted message stands in for a
\* missing or non-positive conversation time
ProcessSorted(cutoff, title, conversation_id, conversation_create_time, msgs) ==
    ProcessTimed(cutoff, title, conversation_id, msgs,
                 IF ~Truthy(conversation_create_time)
                    \/ conversation_create_time.v <= 0
                 THEN get_create_time_safely(msgs[1].msg)
                 ELSE conversation_create_time)

\* lines 288-294: no message left, or the sort
ProcessCollected(cutoff, title, conversation_id, conversation_create_time, collected) ==
    IF collected = <<>> THEN Dropped("skipped")
    ELSE IF SortRaises(collected) THEN Dropped("skipped")
    ELSE ProcessSorted(cutoff, title, conversation_id,
                       conversation_create_time, SortMessages(collected))

\* lines 254-285: the first year filter and the walk over the mapping
ProcessRecord(cutoff, title, mapping, conversation_id, conversation_create_time) ==
    IF IsPositiveNum(conversation_create_time)
       /\ YearOf(conversation_create_time.v) < cutoff
    THEN Dropped("skipped_old")
    ELSE IF ~Truthy(mapping) THEN Dropped("skipped")
    ELSE IF ~IsDict(mapping) THEN Dropped("skipped")     \* .items() raises
    ELSE ProcessCollected(cutoff, title, conversation_id,
                          conversation_create_time,
                          CollectMessages(mapping.v, 1))

\* the body of `for entry in data`: what one entry comes to
HandleEntry(entry, cutoff) ==
    IF ~IsDict(entry) THEN Dropped("skipped")
    ELSE ProcessRecord(cutoff,
                       GetOr(entry, "title", JStr(<<>>)),
                       GetOr(entry, "mapping", JDict(<<>>)),
                       GetOr(entry, "id", JStr(ROLE_UNKNOWN)),
                       ConversationTime(entry))

\* process_conversations is not in use
ConvIdle ==
    /\ json_data = JNull /\ data = <<>> /\ filter_before_year = 0 /\ idx = 0
    /\ processed = 0 /\ skipped = 0 /\ skipped_old = 0
    /\ files = <<>> /\ writes = <<>>
    /\ handled = Dropped("none") /\ returned = <<>>

----------------------------------------------------------------------------
(* obsidian_chatgpt_organizer.py: extract_tags_from_content *)

TOPIC_KEYWORDS == <<
    [topic |-> "python", keywords |-> <<
        <<"p","y","t","h","o","n">>,
        <<"d","j","a","n","g","o">>,
        <<"f","l","a","s","k">>,
        <<"p","a","n","d","a","s">>,
        <<"n","u","m","p","y">>,
        <<"m","a","t","p","l","o","t","l","i","b">>,
        <<"t","e","n","s","o","r","f","l","o","w">>,
        <<"p","y","t","o","r","c","h">>
    >>],
    [topic |-> "javascript", keywords |-> <<
        <<"j","a","v","a","s","c","r","i","p","t">>,
        <<"j","s">>,
        <<"n","o","d","e">>,
        <<"r","e","a","c","t">>,
        <<"v","u","e">>,
        <<"a","n","g","u","l","a","r">>,
        <<"t","y","p","e","s","c","r","i","p","t">>,
        <<"n","p","m">>
    >>],
    [topic |-> "startup", keywords |-> <<
        <<"s","t","a","r","t","u","p">>,
        <<"f","o","u","n","d","e","r">>,
        <<"v","e","n","t","u","r","e">>,
        <<"p","i","t","c","h">>,
        <<"e","n","t","r","e","p","r","e","n","e","u","r","s","h","i","p">>,
        <<"b","u","s","i","n","e","s","s"," ","m","o","d","e","l">>,
        <<"m","v","p">>
    >>],
    [topic |-> "marketing", keywords |-> <<
        <<"m","a","r","k","e","t","i","n","g">>,
        <<"s","e","o">>,
        <<"a","d","v","e","r","t","i","s","i","n","g">>,
        <<"c","u","s","t","o","m","e","r">>,
        <<"b","r","a","n","d">>,
        <<"s","o","c","i","a","l"," ","m","e","d","i","a">>,
        <<"c","o","n","t","e","n","t">>
    >>],
    [topic |-> "vc", keywords |-> <<
        <<"v","c">>,
        <<"v","e","n","t","u","r","e"," ","c","a","p","i","t","a","l">>,
        <<"i","n","v","e","s","t","o","r">>,
        <<"f","u","n","d","i","n","g">>,
        <<"s","e","r","i","e","s"," ","a">>,
        <<"a","n","g","e","l">>,
        <<"t","e","r","m"," ","s","h","e","e","t">>
    >>],
    [topic |-> "ai", keywords |-> <<
        <<"a","i">>,
        <<"a","r","t","i","f","i","c","i","a","l"," ","i","n","t","e","l","l","i","g","e","n","c","e">>,
        <<"m","a","c","h","i","n","e"," ","l","e","a","r","n","i","n","g">>,
        <<"m","l">>,
        <<"d","e","e","p"," ","l","e","a","r","n","i","n","g">>,
        <<"l","l","m">>,
        <<"n","e","u","r","a","l">>
    >>],
    [topic |-> "data", keywords |-> <<
        <<"d","a","t","a">>,
        <<"d","a","t","a","b","a","s","e">>,
        <<"s","q","l">>,
        <<"n","o","s","q","l">>,
        <<"a","n","a","l","y","t","i","c","s">>,
        <<"v","i","s","u","a","l","i","z","a","t","i","o","n">>,
        <<"d","a","s","h","b","o","a","r","d">>
    >>],
    [topic |-> "web", keywords |-> <<
        <<"w","e","b">>,
        <<"h","t","m","l">>,
        <<"c","s","s">>,
        <<"f","r","o","n","t","e","n","d">>,
        <<"b","a","c","k","e","n","d">>,
        <<"f","u","l","l","s","t","a","c","k">>,
        <<"r","e","s","p","o","n","s","i","v","e">>
    >>],
    [topic |-> "mobile", keywords |-> <<
        <<"m","o","b","i","l","e">>,
        <<"i","o","s">>,
        <<"a","n","d","r","o","i","d">>,
        <<"a","p","p">>,
        <<"s","w","i","f","t">>,
        <<"k","o","t","l","i","n">>,
        <<"r","e","a","c","t"," ","n","a","t","i","v","e">>
    >>],
    [topic |-> "cloud", keywords |-> <<
        <<"c","l","o","u","d">>,
        <<"a","w","s">>,
        <<"a","z","u","r","e">>,
        <<"g","c","p">>,
        <<"s","e","r","v","e","r","l","e","s","s">>,
        <<"d","o","c","k","e","r">>,
        <<"k","u","b","e","r","n","e","t","e","s">>
    >>],
    [topic |-> "security", keywords |-> <<
        <<"s","e","c","u","r","i","t","y">>,
        <<"e","n","c","r","y","p","t","i","o","n">>,
        <<"a","u","t","h","e","n","t","i","c","a","t","i","o","n">>,
        <<"v","u","l","n","e","r","a","b","i","l","i","t","y">>,
        <<"f","i","r","e","w","a","l","l">>,
        <<"c","y","b","e","r","s","e","c","u","r","i","t","y">>
    >>],
    [topic |-> "blockchain", keywords |-> <<
        <<"b","l","o","c","k","c","h","a","i","n">>,
        <<"c","r","y","p","t","o">>,
        <<"b","i","t","c","o","i","n">>,
        <<"e","t","h","e","r","e","u","m">>,
        <<"n","f","t">>,
        <<"t","o","k","e","n">>,
        <<"w","e","b","3">>
    >>],
    [topic |-> "design", keywords |-> <<
        <<"d","e","s","i","g","n">>,
        <<"u","i">>,
        <<"u","x">>,
        <<"f","i","g","m","a">>,
        <<"s","k","e","t","c","h">>,
        <<"w","i","r","e","f","r","a","m","e">>,
        <<"p","r","o","t","o","t","y","p","e">>
    >>],
    [topic |-> "career", keywords |-> <<
        <<"c","a","r","e","e","r">>,
        <<"r","e","s","u","m","e">>,
        <<"i","n","t","e","r","v","i","e","w">>,
        <<"j","o","b">>,
        <<"s","a","l","a","r","y">>,
        <<"p","r","o","m","o","t","i","o","n">>,
        <<"s","k","i","l","l","s">>
    >>],
    [topic |-> "productivity", keywords |-> <<
        <<"p","r","o","d","u","c","t","i","v","i","t","y">>,
        <<"w","o","r","k","f","l","o","w">>,
        <<"e","f","f","i","c","i","e","n","c","y">>,
        <<"a","u","t","o","m","a","t","i","o","n">>,
        <<"t","o","o","l">>,
        <<"p","r","o","c","e","s","s">>
    >>],
    [topic |-> "health", keywords |-> <<
        <<"h","e","a","l","t","h">>,
        <<"f","i","t","n","e","s","s">>,
        <<"n","u","t","r","i","t","i","o","n">>,
        <<"m","e","d","i","c","a","l">>,
        <<"e","x","e","r","c","i","s","e">>,
        <<"w","e","l","l","n","e","s","s">>,
        <<"d","i","e","t">>
    >>],
    [topic |-> "education", keywords |-> <<
        <<"e","d","u","c","a","t","i","o","n">>,
        <<"l","e","a","r","n","i","n","g">>,
        <<"c","o","u","r","s","e">>,
        <<"t","u","t","o","r","i","a","l">>,
        <<"t","e","a","c","h">>,
        <<"s","t","u","d","e","n","t">>,
        <<"t","r","a","i","n","i","n","g">>
    >>]
>>

SENTINEL_TAG == "chatgpt"

\* stopwords.words('english') of NLTK, the words the inputs below can form
stop_words == { <<"a">>, <<"a","n">>, <<"a","n","d">>, <<"t","h","e">>,
                <<"i","s">>, <<"i","t">>, <<"t","o">>, <<"o","f">>,
                <<"o","n">>, <<"i","n">>, <<"i">>, <<"s">>, <<"t">>,
                <<"d">>, <<"m">>, <<"o">>, <<"y">>, <<"n","o">>,
                <<"s","o">>, <<"d","o">> }

\* characters NLTK's word tokenizer always puts in a token of their own
SPLIT_CHARS == {"*", "<", ">", "#", ";", "?", "!", "@", "$", "%", "&",
                "(", ")", "[", "]", "{", "}"}

\* s[i] (1-based) is a token of its own: a character of SPLIT_CHARS, or a
\* colon or comma that is not followed by a digit
SplitsAt(s, i) ==
    \/ s[i] \in SPLIT_CHARS
    \/ /\ s[i] \in {":", ","}
       /\ \/ i = Len(s)
          \/ ~(\E k \in 1..10 : DIGITS[k] = s[i + 1])

\* the last position (1-based) of the token that starts at position i
TokenEnd(s, i) ==
    IF SplitsAt(s, i) THEN i
    ELSE Min({j \in i..Len(s) :
                 \/ j = Len(s)
                 \/ IsSpace(s[j + 1])
                 \/ SplitsAt(s, j + 1)})

RECURSIVE TokenLoop(_, _, _)
\* the token from position b to position e appended to out, and those after
TakeToken(s, b, e, out) == TokenLoop(s, e + 1, Append(out, SubSeq(s, b, e)))

\* the token that starts at position b appended to out, and those after
TokenAt(s, b, out) == TakeToken(s, b, TokenEnd(s, b), out)

\* the tokens of s from position i on, appended to out
TokenLoop(s, i, out) ==
    IF \A j \in i..Len(s) : IsSpace(s[j]) THEN out
    ELSE TokenAt(s, Min({j \in i..Len(s) : ~IsSpace(s[j])}), out)

\* word_tokenize(content): tokens are separated by whitespace and by the
\* punctuation of SplitsAt
word_tokenize(content) == TokenLoop(content, 1, <<>>)

\* w.isalnum()
IsAlnumWord(w) == w # <<>> /\ \A i \in 1..Len(w) : IsAlnum(w[i])

\* [w for w in tokens if w.isalnum() and w not in stop_words]
FilteredTokens(content) ==
    SelectSeq(word_tokenize(content),
              LAMBDA w : IsAlnumWord(w) /\ w \notin stop_words)

\* len(keyword.split()) > 1
IsMultiWord(keyword) ==
    \E i \in 2..(Len(keyword) - 1) :
        /\ IsSpace(keyword[i])
        /\ NonBlank(Slice(keyword, 0, i - 1))
        /\ NonBlank(Slice(keyword, i, Len(keyword)))

\* token in keywords or any(keyword in content and len(keyword.split()) > 1 ...)
\* with the multi-word part left out
Scores_TokenOnly(token, keywords, content) ==
    \E k \in 1..Len(keywords) : keywords[k] = token

\* token in keywords or any(keyword in content and len(keyword.split()) > 1
\*                          for keyword in keywords)
Scores(token, keywords, content) ==
    \/ \E k \in 1..Len(keywords) : keywords[k] = token
    \/ \E k \in 1..Len(keywords) :
           IsMultiWord(keywords[k]) /\ Contains(content, keywords[k])

RECURSIVE TopicScore(_, _, _)
\* topic_scores[topic] after the loop over filtered_tokens
TopicScore(filtered_tokens, keywords, content) ==
    IF filtered_tokens = <<>> THEN 0
    ELSE (IF Scores(Head(filtered_tokens), keywords, content) THEN 1 ELSE 0)
         + TopicScore(Tail(filtered_tokens), keywords, content)

\* topic_scores, in the order of TOPIC_KEYWORDS; content is already lowercased
TopicScores(content, filtered_tokens) ==
    [t \in 1..Len(TOPIC_KEYWORDS) |->
        TopicScore(filtered_tokens, TOPIC_KEYWORDS[t].keywords, content)]

\* score > 1, weakened to score > 0
IsRelevant_Once(score) == score > 0

\* score > 1
IsRelevant(score) == score > 1

RECURSIVE RelevantTopics(_, _)
\* [topic for topic, score in topic_scores.items() if score > 1]
RelevantTopics(scores, t) ==
    IF t > Len(scores) THEN <<>>
    ELSE (IF IsRelevant(scores[t]) THEN <<TOPIC_KEYWORDS[t].topic>> ELSE <<>>)
         \o RelevantTopics(scores, t + 1)

\* topic_scores as extract_tags_from_content(content) leaves it
topic_scores_of(content) ==
    TopicScores(Lower(content), FilteredTokens(Lower(content)))

\* tags = ['chatgpt'] + relevant_topics
TagsOf(scores) == <<SENTINEL_TAG>> \o RelevantTopics(scores, 1)

\* extract_tags_from_content(content)
extract_tags_from_content(content) == TagsOf(topic_scores_of(content))

----------------------------------------------------------------------------
(* Input documents of the segmenter *)

PHRASE_LOWER == <<"m","o","v","i","n","g"," ","o","n"," ","t","o">>
PHRASE_MIXED == <<"N","e","w"," ","T","o","p","i","c",":">>

SegPieces == { <<"\n">>, <<"*">>, <<" ">>, <<"#">>,
               TURN_MARKER, PHRASE_LOWER, PHRASE_MIXED }

RECURSIVE TextsOf(_, _)
\* all concatenations of at most n pieces
TextsOf(pieces, n) ==
    IF n = 0 THEN {<<>>}
    ELSE LET shorter == TextsOf(pieces, n - 1)
         IN  shorter \cup {t \o p : t \in shorter, p \in pieces}

SegDocs == TextsOf(SegPieces, MaxPieces)

\* the content flattener is not in use
FlatIdle == flat_message = JNull /\ flat_content = JNull

\* no part of the file has been tagged
TagIdle == part_index = 0 /\ topic_scores = <<>> /\ tags = <<>>

\* the organizer is not in use
OrgIdle ==
    /\ md_content = <<>> /\ content_parts = <<>>
    /\ max_length = 0 /\ summary = <<>>
    /\ TagIdle

InitSeg ==
    /\ FlatIdle /\ ConvIdle /\ TagIdle
    /\ stage = "read"
    /\ md_content \in SegDocs
    /\ content_parts = <<>>
    /\ max_length = 0
    /\ summary = <<>>

\* process_markdown_file: content_parts = split_content_by_topics(content)
SplitContent ==
    /\ stage = "read"
    /\ content_parts' = split_content_by_topics(md_content)
    /\ stage' = "split"
    /\ UNCHANGED <<md_content, max_length, summary, tagVars, flatVars,
                   convVars>>

NextSeg == SplitContent

SpecSeg == InitSeg /\ [][NextSeg]_vars

----------------------------------------------------------------------------
(* Input texts of generate_summary *)

AUTHOR_TAG == <<"*", "*", "U", "*", "*", ":", " ">>

SumPieces == { <<"*">>, <<"U">>, <<":">>, <<" ">>, <<"\n">>, <<"x", "y">>,
               AUTHOR_TAG }

SumTexts == TextsOf(SumPieces, MaxSumPieces)

SumMaxLengths == {1, 3}

InitSum ==
    /\ FlatIdle /\ ConvIdle /\ TagIdle
    /\ stage = "split"
    /\ md_content \in SumTexts
    /\ content_parts = <<md_content>>
    /\ max_length \in SumMaxLengths
    /\ summary = <<>>

\* process_markdown_file: summary = generate_summary(part_content)
GenerateSummary ==
    /\ stage = "split"
    /\ summary' = generate_summary(content_parts[1], max_length)
    /\ stage' = "summarized"
    /\ UNCHANGED <<md_content, content_parts, max_length, tagVars, flatVars,
                   convVars>>

NextSum == GenerateSummary

SpecSum == InitSum /\ [][NextSum]_vars

----------------------------------------------------------------------------
(* Input messages of _get_message_content *)

S_HELLO == <<"H","e","l","l","o"," ","w","o","r","l","d">>
S_HI    == <<"H","i">>

RECURSIVE SeqsUpTo(_, _)
\* all sequences of at most n elements of S
SeqsUpTo(S, n) ==
    IF n = 0 THEN {<<>>}
    ELSE LET shorter == SeqsUpTo(S, n - 1)
         IN  shorter \cup {Append(q, x) : q \in shorter, x \in S}

PartItems == { JStr(S_HI), JStr(<<>>), JNull, JNum(7),
               JDict(<< <<"text", JStr(S_HI)>> >>),
               JDict(<< <<"text", JNum(7)>> >>) }

ListItems == { JStr(S_HI), JStr(<<>>), JNum(7), JNull }

PartsValues ==
    {JList(q) : q \in SeqsUpTo(PartItems, MaxParts)} \cup {JNull, JStr(S_HI)}

FlatContents ==
    { JStr(S_HELLO), JStr(<<>>), JStr(<<" ", "\n">>), JNum(5), JNull }
    \cup {JDict(<< <<"content_type", JStr(<<"t","e","x","t">>)>>,
                  <<"parts", ps>> >>) : ps \in PartsValues}
    \cup {JDict(<< <<"text", x>> >>) : x \in {JStr(S_HI), JNum(42), JNull}}
    \cup {JDict(<< <<"result", x>> >>) : x \in {JStr(S_HI), JNum(42)}}
    \cup { JDict(<< <<"content_type", JStr(USER_EDITABLE_CONTEXT)>>,
                    <<"user_profile", JStr(S_HI)>> >>),
           JDict(<< <<"content_type", JStr(USER_EDITABLE_CONTEXT)>>,
                    <<"user_profile", JNull>> >>),
           JDict(<< <<"content_type", JStr(USER_EDITABLE_CONTEXT)>> >>),
           JDict(<< <<"content_type", JStr(<<"c","o","d","e">>)>> >>) }
    \cup { JDict(<< <<"foo", JStr(S_HI)>>, <<"n", JNum(1)>>,
                    <<"bar", JStr(S_HELLO)>> >>),
           JDict(<< <<"n", JNum(1)>> >>),
           JDict(<<>>) }
    \cup {JList(q) : q \in SeqsUpTo(ListItems, MaxParts)}

FlatMessages ==
    {JDict(<< <<"content", c>> >>) : c \in FlatContents}
    \cup { JDict(<< <<"text", JStr(S_HI)>> >>),
           JDict(<< <<"value", JNum(7)>> >>),
           JDict(<< <<"body", JNull>> >>),
           JDict(<< <<"author", JDict(<<>>)>> >>),
           JDict(<<>>), JNull, JStr(S_HI), JNum(3), JList(<<JStr(S_HI)>>) }

InitFlat ==
    /\ OrgIdle /\ ConvIdle
    /\ stage = "message"
    /\ flat_message \in FlatMessages
    /\ flat_content = JNull

\* msg_content = _get_message_content(message)
FlattenContent ==
    /\ stage = "message"
    /\ flat_content' = _get_message_content(flat_message)
    /\ stage' = "flattened"
    /\ UNCHANGED <<md_content, content_parts, max_length, summary, tagVars,
                   flat_message, convVars>>

NextFlat == FlattenContent

SpecFlat == InitFlat /\ [][NextFlat]_vars
----------------------------------------------------------------------------
(* Input records of process_conversations *)

S_T == <<"M","y"," ","c","h","a","t","!">>
AUTHOR_USER == <<"author", JDict(<< <<"role", JStr(ROLE_USER)>> >>)>>
AUTHOR_ASSISTANT ==
    <<"author", JDict(<< <<"role", JStr(<<"a","s","s","i","s","t","a","n","t">>)>> >>)>>

M_HELLO == JDict(<< AUTHOR_USER, <<"content", JStr(S_HELLO)>>,
                    <<"create_time", JNum(1700000001)>> >>)
M_REPLY == JDict(<< AUTHOR_ASSISTANT,
                    <<"content", JDict(<< <<"content_type", JStr(<<"t","e","x","t">>)>>,
                                          <<"parts", JList(<<JStr(S_HI)>>)>> >>)>>,
                    <<"create_time", JNum(1750000000)>> >>)
M_TOP_ROLE == JDict(<< <<"role", JStr(ROLE_USER)>>, <<"content", JStr(S_HI)>> >>)
M_ALT_TIME == JDict(<< AUTHOR_USER, <<"content", JStr(S_HI)>>,
                       <<"timestamp", JNum(1560000000)>> >>)
M_NEGATIVE == JDict(<< AUTHOR_ASSISTANT, <<"content", JStr(S_HI)>>,
                       <<"create_time", JNum(-5)>> >>)
M_NUMBER == JDict(<< AUTHOR_USER, <<"content", JDict(<< <<"text", JNum(42)>> >>)>> >>)
M_EMPTY == JDict(<< AUTHOR_USER, <<"content", JStr(<<>>)>>,
                    <<"create_time", JNum(1750000001)>> >>)
M_OLD == JDict(<< AUTHOR_ASSISTANT, <<"content", JStr(S_HI)>>,
                  <<"create_time", JNum(1560000000)>> >>)

Messages == { M_HELLO, M_REPLY, M_TOP_ROLE, M_ALT_TIME, M_NEGATIVE, M_NUMBER,
              M_EMPTY, M_OLD }

\* the values of a mapping: nodes with a message, a node whose message is
\* null, one whose message is not an object, one without a message
Nodes ==
    {JDict(<< <<"id", JStr(<<"n">>)>>, <<"message", m>> >>) : m \in Messages}
    \cup { JDict(<< <<"id", JStr(<<"n">>)>>, <<"message", JNull>> >>),
           JDict(<< <<"id", JStr(<<"n">>)>>, <<"message", JStr(S_HI)>> >>),
           JDict(<< <<"id", JStr(<<"n">>)>> >>) }

NODE_IDS == <<"a", "b", "c", "d">>

\* the mappings with at most MaxNodes nodes, as item sequences
Mappings ==
    {JDict([i \in 1..Len(q) |-> <<NODE_IDS[i], q[i]>>]) :
        q \in SeqsUpTo(Nodes, MaxNodes)}

ConversationTimes ==
    { JNum(1560000000), JNum(1700000000), JNum(-1),
      JStr(<<"b","a","d">>), JStr(DATE_2019) }

Titles == { JStr(<<>>), JStr(S_T) }

ID_C1 == <<"id", JStr(<<"c","1">>)>>

\* records with a mapping, with and without a create_time of their own;
\* records with only a flat `messages` list; a record whose mapping is not
\* an object; an entry that is not an object
Entries ==
    {JDict(<< ID_C1, <<"title", t>>, <<"mapping", m>> >>) :
        t \in Titles, m \in Mappings}
    \cup {JDict(<< ID_C1, <<"title", t>>, <<"create_time", c>>, <<"mapping", m>> >>) :
        t \in Titles, c \in ConversationTimes, m \in Mappings}
    \cup {JDict(<< ID_C1, <<"title", JStr(S_T)>>, <<"messages", JList(q)>> >>) :
        q \in SeqsUpTo({M_HELLO, JNull}, MaxNodes)}
    \cup { JDict(<< ID_C1, <<"mapping", JList(<<JStr(S_HI)>>)>> >>),
           JStr(S_HI) }

Cutoffs == {2020, 2025}

InitConv ==
    /\ OrgIdle /\ FlatIdle
    /\ stage = "loop"
    /\ data \in {<<e>> : e \in Entries}
    /\ json_data = JList(data)
    /\ filter_before_year \in Cutoffs
    /\ idx = 0 /\ processed = 0 /\ skipped = 0 /\ skipped_old = 0
    /\ files = <<>>
    /\ writes = <<>>
    /\ handled = Dropped("none")
    /\ returned = <<>>

\* the same, with an entry excluded as too old counted as skipped as well
WriteAndCount_OldSkipped(h) ==
    /\ handled' = h
    /\ processed' = processed + (IF h.outcome = "processed" THEN 1 ELSE 0)
    /\ skipped' = skipped + (IF h.outcome \in {"skipped", "skipped_old"}
                             THEN 1 ELSE 0)
    /\ skipped_old' = skipped_old
                      + (IF h.outcome = "skipped_old" THEN 1 ELSE 0)
    /\ files' = IF h.outcome = "processed"
                THEN (h.file_name :> h.document) @@ files
                ELSE files
    /\ writes' = IF h.outcome = "processed"
                 THEN Append(writes, h.file_name)
                 ELSE writes

\* the file written and the counters updated for the outcome h of one entry
WriteAndCount(h) ==
    /\ handled' = h
    /\ processed' = processed + (IF h.outcome = "processed" THEN 1 ELSE 0)
    /\ skipped' = skipped + (IF h.outcome = "skipped" THEN 1 ELSE 0)
    /\ skipped_old' = skipped_old
                      + (IF h.outcome = "skipped_old" THEN 1 ELSE 0)
    /\ files' = IF h.outcome = "processed"
                THEN (h.file_name :> h.document) @@ files
                ELSE files
    /\ writes' = IF h.outcome = "processed"
                 THEN Append(writes, h.file_name)
                 ELSE writes

\* one iteration of `for entry in data`, the write and the counters included
ProcessEntry ==
    /\ stage = "loop"
    /\ idx < Len(data)
    /\ WriteAndCount(HandleEntry(data[idx + 1], filter_before_year))
    /\ idx' = idx + 1
    /\ UNCHANGED <<orgVars, flatVars, json_data, data, filter_before_year,
                   returned>>

\* return processed, skipped
ReturnCounts ==
    /\ stage = "loop"
    /\ idx = Len(data)
    /\ returned' = <<processed, skipped>>
    /\ stage' = "returned"
    /\ UNCHANGED <<md_content, content_parts, max_length, summary, tagVars,
                   flatVars, json_data, data, filter_before_year, idx,
                   processed, skipped, skipped_old, files, writes, handled>>

NextConv == ProcessEntry \/ ReturnCounts

SpecConv == InitConv /\ [][NextConv]_vars
----------------------------------------------------------------------------
(* Input texts of extract_tags_from_content *)

\* generate_summary(content, max_length=100)
DEFAULT_MAX_LENGTH == 100

TagPieces == { <<"p","y","t","h","o","n"," ">>,
               <<"D","j","a","n","g","o",",">>,
               <<"s","e","r","i","e","s"," ">>,
               <<"a"," ">>,
               <<"a","n","d"," ">> }

TagTexts == TextsOf(TagPieces, MaxTagPieces)

InitTag ==
    /\ FlatIdle /\ ConvIdle /\ TagIdle
    /\ stage = "split"
    /\ md_content \in TagTexts
    /\ content_parts = <<md_content>>
    /\ max_length = 0
    /\ summary = <<>>

\* process_markdown_file: one iteration of `for i, part_content in
\* enumerate(content_parts)`, the tags and the summary of the part
OrganizePart ==
    /\ stage = "split"
    /\ part_index < Len(content_parts)
    /\ topic_scores' = topic_scores_of(content_parts[part_index + 1])
    /\ tags' = TagsOf(topic_scores')
    /\ max_length' = DEFAULT_MAX_LENGTH
    /\ summary' = generate_summary(content_parts[part_index + 1],
                                   DEFAULT_MAX_LENGTH)
    /\ part_index' = part_index + 1
    /\ UNCHANGED <<stage, md_content, content_parts, flatVars, convVars>>

\* process_markdown_file: return len(processed_files) > 0
ReturnOrganized ==
    /\ stage = "split"
    /\ part_index = Len(content_parts)
    /\ stage' = "organized"
    /\ UNCHANGED <<md_content, content_parts, max_length, summary, tagVars,
                   flatVars, convVars>>

NextTag == OrganizePart \/ ReturnOrganized

SpecTag == InitTag /\ [][NextTag]_vars

----------------------------------------------------------------------------
(* Round trip: a record converted, then its document organized *)

LinePieces == { <<"H","e","l","l","o">>, <<" ">>, <<"w","o","r","l","d">>,
                S_HI, <<"p","y","t","h","o","n">> }

\* one-line contents with no blank at either end
RoundLines ==
    {c \in TextsOf(LinePieces, MaxLinePieces) : c # <<>> /\ Strip(c) = c}

RoundTimes == {1600000000, 1700000000, 1750000000}

\* {"id": "c1", "title": "", "create_time": t,
\*  "mapping": {"a": {"message": {"author": {"role": "user"}, "content": c,
\*                                "create_time": t + 1}}}}
RoundRecord(c, t) ==
    JDict(<< ID_C1, <<"title", JStr(<<>>)>>, <<"create_time", JNum(t)>>,
             <<"mapping",
               JDict(<< <<"a",
                 JDict(<< <<"message",
                   JDict(<< AUTHOR_USER, <<"content", JStr(c)>>,
                            <<"create_time", JNum(t + 1)>> >>)>> >>)>> >>)>> >>)

InitRound ==
    /\ OrgIdle /\ FlatIdle
    /\ stage = "loop"
    /\ data \in {<<RoundRecord(c, t)>> : c \in RoundLines, t \in RoundTimes}
    /\ json_data = JList(data)
    /\ filter_before_year = 2020
    /\ idx = 0 /\ processed = 0 /\ skipped = 0 /\ skipped_old = 0
    /\ files = <<>>
    /\ writes = <<>>
    /\ handled = Dropped("none")
    /\ returned = <<>>

\* process_markdown_file: content = f.read() of a file of the output
\* directory; a blank file is skipped
ReadFile ==
    /\ stage = "returned"
    /\ \E name \in DOMAIN files :
           /\ md_content' = files[name]
           /\ stage' = IF NonBlank(files[name]) THEN "read" ELSE "organized"
    /\ UNCHANGED <<content_parts, max_length, summary, tagVars, flatVars,
                   convVars>>

NextRound ==
    \/ ProcessEntry
    \/ ReturnCounts
    \/ ReadFile
    \/ SplitContent
    \/ OrganizePart
    \/ ReturnOrganized

SpecRound == InitRound /\ [][NextRound]_vars

----------------------------------------------------------------------------
(* Batches: the values process_conversations is given by main *)

\* the text of the keys of a record
KeyText(k) ==
    CASE k = "id" -> <<"i","d">>
      [] k = "title" -> <<"t","i","t","l","e">>
      [] k = "create_time" -> <<"c","r","e","a","t","e","_","t","i","m","e">>
      [] k = "mapping" -> <<"m","a","p","p","i","n","g">>
      [] OTHER -> <<"k","e","y">>

\* what `for entry in data` goes through: the items of a list, the keys of
\* an object
IterEntries(value) ==
    IF IsDict(value)
    THEN [i \in 1..Len(value.v) |-> JStr(KeyText(value.v[i][1]))]
    ELSE value.v

\* {"id": id, "title": title, "create_time": ctime,
\*  "mapping": {"a": {"message": message}}}
BatchRecord(id, title, ctime, message) ==
    JDict(<< <<"id", JStr(id)>>, <<"title", JStr(title)>>,
             <<"create_time", ctime>>,
             <<"mapping",
               JDict(<< <<"a", JDict(<< <<"message", message>> >>)>> >>)>> >>)

\* records written under their own name, two records of the same day and
\* title, a record of 2019, a record whose create_time does not parse, a
\* record with a turn that fails to render, a record whose title cannot be
\* inferred
BatchRecords ==
    { BatchRecord(<<"c","1">>, <<>>, JNum(1700000000), M_HELLO),
      BatchRecord(<<"c","2">>, S_T, JNum(1700000000), M_HELLO),
      BatchRecord(<<"c","3">>, S_T, JNum(1700000000), M_REPLY),
      BatchRecord(<<"c","4">>, S_T, JNum(1560000000), M_HELLO),
      BatchRecord(<<"c","5">>, S_T, JStr(<<"b","a","d">>), M_REPLY),
      BatchRecord(<<"c","6">>, S_T, JNum(1750000000), M_NUMBER),
      BatchRecord(<<"c","7">>, <<>>, JNum(1750000000), M_NUMBER) }

\* with them: a record whose mapping is a list, an entry that is a string
BatchEntries ==
    BatchRecords
    \cup { JDict(<< ID_C1, <<"mapping", JList(<<JStr(S_HI)>>)>> >>),
           JStr(S_HI) }

\* a list of entries, or a single record
BatchInputs ==
    {JList(q) : q \in SeqsUpTo(BatchEntries, MaxEntries)} \cup BatchRecords

InitBatch ==
    /\ OrgIdle /\ FlatIdle
    /\ stage = "loop"
    /\ json_data \in BatchInputs
    /\ data = IterEntries(json_data)
    /\ filter_before_year = 2020
    /\ idx = 0 /\ processed = 0 /\ skipped = 0 /\ skipped_old = 0
    /\ files = <<>>
    /\ writes = <<>>
    /\ handled = Dropped("none")
    /\ returned = <<>>

NextBatch == ProcessEntry \/ ReturnCounts

SpecBatch == InitBatch /\ [][NextBatch]_vars

----------------------------------------------------------------------------
(* Segmenter claims *)

\* the turn chunks of the document and the chunks that hold a transition phrase
TurnChunks == ReSplitMarker(md_content)
PhraseChunks ==
    {i \in 2..Len(TurnChunks) :
        \E k \in 1..Len(TOPIC_TRANSITION_PHRASES) :
            Contains(Lower(TurnChunks[i]), TOPIC_TRANSITION_PHRASES[k])}

\* a document written by the converter starts with its "# " header
IsRenderedDoc == Len(md_content) >= 2 /\ md_content[1] = "#" /\ md_content[2] = " "

RECURSIVE JoinMarked(_)
\* the chunks put back together, each preceded by the turn-start marker
JoinMarked(chunks) ==
    IF chunks = <<>> THEN <<>>
    ELSE TURN_MARKER \o Head(chunks) \o JoinMarked(Tail(chunks))

\* C1: concatenating the segments returned by split_content_by_topics
\* reproduces the document exactly, for any input document.
C1_LosslessPartition ==
    stage = "split" => Join(content_parts) = md_content

\* C1 (amended): the segments are the parts of the cut that are not blank:
\* without a transition the only segment is the document; with one, the
\* concatenation is the document when the text before the first turn that
\* holds a phrase is not blank, and the document without that text when it
\* is blank.
C1_PartitionDropsBlankLead ==
    stage = "split" =>
        IF PhraseChunks = {} THEN content_parts = <<md_content>>
        ELSE LET i    == Min(PhraseChunks)
                 lead == Head(TurnChunks) \o JoinMarked(SubSeq(TurnChunks, 2, i - 1))
                 rest == JoinMarked(SubSeq(TurnChunks, i, Len(TurnChunks)))
             IN  /\ md_content = lead \o rest
                 /\ Join(content_parts) = IF NonBlank(lead) THEN md_content ELSE rest

\* C1 witness: a document cut at two transitions whose segments give the
\* document back.
C1_Witness ==
    /\ stage = "split"
    /\ Len(content_parts) = 3
    /\ Join(content_parts) = md_content

\* C6: in a rendered document where exactly one turn chunk after the first
\* holds a transition phrase, there are exactly two segments and the second
\* one starts at the turn-start marker of the turn that holds the phrase.
C6_SplitBeforeTurn ==
    (stage = "split" /\ IsRenderedDoc /\ Cardinality(PhraseChunks) = 1) =>
        LET i == CHOOSE j \in PhraseChunks : TRUE
        IN  /\ Len(content_parts) = 2
            /\ content_parts[1] =
                 Head(TurnChunks) \o JoinMarked(SubSeq(TurnChunks, 2, i - 1))
            /\ content_parts[2] =
                 JoinMarked(SubSeq(TurnChunks, i, Len(TurnChunks)))

\* C6 witness: a rendered document split in two where the phrase is not the
\* first text of its turn.
C6_Witness ==
    /\ stage = "split" /\ IsRenderedDoc /\ PhraseChunks = {2}
    /\ Len(content_parts) = 2
    /\ Find(Lower(TurnChunks[2]),
            TOPIC_TRANSITION_PHRASES[FirstPhrase(Lower(TurnChunks[2]))], 0) > 0

----------------------------------------------------------------------------
(* Summary claims *)

\* a turn marker **<name>**: occupies offsets i..e-1 of s
IsTagAt(s, i, e) ==
    /\ e - i >= 6
    /\ MatchAt(s, STARS, i)
    /\ MatchAt(s, STARS_COLON, e - 3)
    /\ \A k \in (i + 3)..(e - 3) : s[k] # "*"

\* offsets just after a turn marker
TagEnds(s) == {e \in 0..Len(s) : \E i \in 0..e : IsTagAt(s, i, e)}

\* s without its leading whitespace
LStrip(s) ==
    IF ~NonBlank(s) THEN <<>>
    ELSE SubSeq(s, Min({i \in 1..Len(s) : ~IsSpace(s[i])}), Len(s))

RECURSIVE FirstNonBlankLine(_)
\* the first line of s that is not blank, <<>> if there is none
FirstNonBlankLine(s) ==
    IF NonBlank(FirstLine(s)) \/ Find(s, <<"\n">>, 0) = -1 THEN FirstLine(s)
    ELSE FirstNonBlankLine(Slice(s, Find(s, <<"\n">>, 0) + 1, Len(s)))

\* s with a turn marker at its start, and the whitespace after it, removed
WithoutLeadingTag(s) ==
    LET ends == {e \in TagEnds(s) : IsTagAt(s, 0, e)}
    IN  IF ends = {} THEN s ELSE LStrip(Slice(s, Min(ends), Len(s)))

\* result is chosen cut to n characters, "..." appended only when it was longer
IsCut(result, chosen, n) ==
    /\ Len(chosen) <= n => result = chosen
    /\ Len(chosen) > n  => result = SubSeq(chosen, 1, n) \o ELLIPSIS

\* C10 as stated: the text after the first turn marker up to the next
\* newline; otherwise the first non-empty line with a leading marker
\* stripped; otherwise the fallback string; cut to max_length with "...".
C10_SummaryAsStated ==
    stage = "summarized" =>
        LET t == content_parts[1]
        IN  IF TagEnds(t) # {}
            THEN IsCut(summary,
                       Strip(FirstLine(Slice(t, Min(TagEnds(t)), Len(t)))),
                       max_length)
            ELSE IF NonBlank(t)
            THEN IsCut(summary,
                       WithoutLeadingTag(Strip(FirstNonBlankLine(t))),
                       max_length)
            ELSE summary = FALLBACK_SUMMARY

\* C10 (amended): when the first turn marker **<name>**: has a newline
\* somewhere after it, the summary is the first line that follows the marker
\* and the whitespace after it (newlines included), stripped, or "" when no
\* newline ends that line; otherwise it is the first line of the text,
\* stripped, with a leading marker removed, when that line is not blank;
\* otherwise the fallback string. The chosen text is cut to max_length
\* characters and "..." is appended only when it was longer.
C10_Summary ==
    stage = "summarized" =>
        LET t    == content_parts[1]
            ends == {e \in TagEnds(t) : Find(t, <<"\n">>, e) # -1}
            rest == LStrip(Slice(t, Min(ends), Len(t)))
        IN  IF ends # {}
            THEN IsCut(summary,
                       IF Contains(rest, <<"\n">>)
                       THEN Strip(FirstLine(rest)) ELSE <<>>,
                       max_length)
            ELSE IF NonBlank(FirstLine(t))
            THEN IsCut(summary, WithoutLeadingTag(Strip(FirstLine(t))),
                       max_length)
            ELSE summary = FALLBACK_SUMMARY

\* C10 witness: a turn marker is followed by a line longer than max_length,
\* so the summary is that line cut and marked with "...".
C10_Witness ==
    /\ stage = "summarized"
    /\ content_parts[1] = AUTHOR_TAG \o <<"x", "y", "x", "y", "\n">>
    /\ max_length = 3
    /\ summary = <<"x", "y", "x">> \o ELLIPSIS

----------------------------------------------------------------------------
(* Converter claims *)

\* C7: the flattened content of every message is a string: ""  when there is
\* no extractable text, the error placeholder when a field access fails.
C7_ContentIsString ==
    stage = "flattened" => flat_content.t = "str"

\* the entry handled last and the messages of its mapping, in mapping order
LastEntry == data[idx]
EntryMapping == GetOr(LastEntry, "mapping", JDict(<<>>))
EntryFlat == GetOr(LastEntry, "messages", JList(<<>>))
HasTurns ==
    /\ idx > 0
    /\ IsDict(LastEntry)
    /\ \/ IsDict(EntryMapping) /\ EntryMapping.v # <<>>
       \/ ~HasKey(LastEntry, "mapping") /\ EntryFlat.t = "list" /\ EntryFlat.v # <<>>

\* the nodes (or flat entries) whose message is present and not null
PresentMessages ==
    IF ~IsDict(LastEntry) THEN <<>>
    ELSE IF HasKey(LastEntry, "mapping") /\ ~IsDict(EntryMapping) THEN <<>>
    ELSE IF HasKey(LastEntry, "mapping")
    THEN LET nodes == [i \in 1..Len(EntryMapping.v) |-> EntryMapping.v[i][2]]
             kept  == SelectSeq(nodes, LAMBDA n :
                          IsDict(n) /\ HasKey(n, "message")
                          /\ GetKey(n, "message").t # "null")
         IN  [i \in 1..Len(kept) |-> GetKey(kept[i], "message")]
    ELSE SelectSeq(EntryFlat.v, LAMBDA m : m.t # "null")

\* the resolved timestamps of the turns of the entry
TurnTimes ==
    {get_create_time_safely(PresentMessages[i]).v :
        i \in {j \in 1..Len(PresentMessages) :
                  get_create_time_safely(PresentMessages[j]) # JNull}}

\* the record's own timestamp, when it is numeric (or parses) and positive
OwnTime ==
    LET raw == GetOr(LastEntry, "create_time", JNull)
    IN  IF IsStr(raw) /\ ParseDate(raw.v).ok THEN JNum(ParseDate(raw.v).ts)
        ELSE IF IsNum(raw) /\ raw.v > 0 THEN raw
        ELSE JNull

\* the resolved timestamp of the record: its own, else the earliest of its
\* turns, else none
ResolvedTime ==
    IF OwnTime # JNull THEN OwnTime
    ELSE IF TurnTimes # {} THEN JNum(Min(TurnTimes))
    ELSE JNull

\* C2: for a record with a non-empty mapping or flat messages list (and not
\* excluded as too old) the number of turns extracted equals the number of
\* nodes or entries whose message is present and not null.
C2_TurnCount ==
    (HasTurns /\ handled.outcome # "skipped_old") =>
        Len(handled.turns) = Len(PresentMessages)

\* the timestamp C3 orders a turn by: its resolved timestamp, 0 if none
ResolvedKey(raw) ==
    IF get_create_time_safely(raw) = JNull THEN 0
    ELSE get_create_time_safely(raw).v

\* the value of the create_time field, 0 when it is missing, null or zero
RawKey(raw) ==
    IF HasKey(raw, "create_time") /\ IsNum(GetKey(raw, "create_time"))
    THEN GetKey(raw, "create_time").v
    ELSE 0

\* C3 as stated: turns are rendered in ascending order of their resolved
\* timestamp, unresolved ones as 0, equal ones in encounter order.
C3_OrderByResolvedTime ==
    idx > 0 =>
        \A i, j \in 1..Len(handled.rendered) :
            i < j =>
                LET a == handled.rendered[i]
                    b == handled.rendered[j]
                IN  \/ ResolvedKey(a.raw) < ResolvedKey(b.raw)
                    \/ ResolvedKey(a.raw) = ResolvedKey(b.raw) /\ a.pos < b.pos

\* C3 (amended): turns are rendered in ascending order of the value of their
\* create_time field, a missing, null or zero one counting as 0 and a
\* negative one sorting before those; the fields timestamp, time, created_at
\* and date are not consulted; equal keys keep their encounter order.
C3_OrderByCreateTime ==
    idx > 0 =>
        \A i, j \in 1..Len(handled.rendered) :
            i < j =>
                LET a == handled.rendered[i]
                    b == handled.rendered[j]
                IN  \/ RawKey(a.raw) < RawKey(b.raw)
                    \/ RawKey(a.raw) = RawKey(b.raw) /\ a.pos < b.pos

\* C3 witness: two turns were rendered in the reverse of their encounter
\* order.
C3_Witness ==
    /\ idx > 0
    /\ Len(handled.rendered) = 2
    /\ handled.rendered[1].pos > handled.rendered[2].pos

\* C4: no file is written for a record whose resolved year is earlier than
\* filter_before_year.
C4_NoFileForOldRecord ==
    (idx > 0 /\ IsDict(LastEntry) /\ ResolvedTime # JNull
         /\ YearOf(ResolvedTime.v) < filter_before_year) =>
        (handled.outcome # "processed" /\ files = <<>>)

\* C5: when the record's own create_time is absent, unparsable or not
\* positive, the timestamp of a written conversation is the earliest resolved
\* timestamp of its turns, and none only when no turn has one.
C5_EarliestTurnTime ==
    (idx > 0 /\ handled.outcome = "processed" /\ OwnTime = JNull) =>
        handled.create_time =
            (IF TurnTimes = {} THEN JNull ELSE JNum(Min(TurnTimes)))

\* the role C8 resolves for a message of the input
ResolvedRole(raw) ==
    IF HasKey(raw, "author") /\ IsDict(GetKey(raw, "author"))
    THEN GetOr(GetKey(raw, "author"), "role", JStr(ROLE_UNKNOWN))
    ELSE GetOr(raw, "role", JStr(ROLE_UNKNOWN))

\* C8: a rendered turn carries the user display name exactly when its
\* resolved role (author.role, else the top-level role, else "unknown") is
\* "user", and the assistant display name otherwise.
C8_UserLabel ==
    idx > 0 =>
        \A i \in 1..Len(handled.rendered) :
            handled.rendered[i].name =
                (IF ResolvedRole(handled.rendered[i].raw) = JStr(ROLE_USER)
                 THEN USER_NAME ELSE ASSISTANT_NAME)

\* C9: a conversation whose assembled document has the header and metadata
\* lines and no turn is discarded: counted as skipped, no file written.
C9_NoBodyDiscarded ==
    (idx > 0 /\ handled.document # <<>> /\ handled.rendered = <<>>) =>
        (handled.outcome = "skipped" /\ skipped = 1 /\ files = <<>>)

----------------------------------------------------------------------------
(* Tagger claims *)

\* the part tagged last, lowercased
TaggedPart == Lower(content_parts[part_index])

\* the position of a topic name in the declared order of the lexicon
TopicIndex(name) ==
    CHOOSE t \in 1..Len(TOPIC_KEYWORDS) : TOPIC_KEYWORDS[t].topic = name

\* the topics whose score is strictly greater than 1
Qualifying == {t \in 1..Len(TOPIC_KEYWORDS) : topic_scores[t] > 1}

\* C11: for any segment text, the empty text included, the tags are the
\* sentinel "chatgpt" at index 0 followed by exactly the topics whose score
\* is strictly greater than 1, in the declared order of the lexicon.
C11_SentinelThenQualifying ==
    part_index > 0 =>
        /\ Len(tags) = 1 + Cardinality(Qualifying)
        /\ tags[1] = SENTINEL_TAG
        /\ \A i \in 2..Len(tags) :
               \E t \in Qualifying : TOPIC_KEYWORDS[t].topic = tags[i]
        /\ \A i, j \in 2..Len(tags) :
               i < j => TopicIndex(tags[i]) < TopicIndex(tags[j])

\* two topics qualify and the one declared later has the higher score
C11_Witness ==
    /\ part_index > 0
    /\ Len(tags) = 3
    /\ topic_scores[TopicIndex(tags[2])] < topic_scores[TopicIndex(tags[3])]

\* the keywords of topic t that are several words long
MultiWordKeywords(t) ==
    {k \in 1..Len(TOPIC_KEYWORDS[t].keywords) :
        IsMultiWord(TOPIC_KEYWORDS[t].keywords[k])}

\* some multi-word keyword of topic t is a substring of text
PhrasePresent(t, text) ==
    \E k \in MultiWordKeywords(t) :
        Contains(text, TOPIC_KEYWORDS[t].keywords[k])

\* the tokens that equal a single-word keyword of topic t
KeywordTokens(t, tokens) ==
    {i \in 1..Len(tokens) :
        \E k \in 1..Len(TOPIC_KEYWORDS[t].keywords) :
            /\ k \notin MultiWordKeywords(t)
            /\ TOPIC_KEYWORDS[t].keywords[k] = tokens[i]}

\* the score the statement gives topic t for a lowercased text and its
\* filtered tokens
StatedScore(t, text, tokens) ==
    IF PhrasePresent(t, text) THEN Len(tokens)
    ELSE Cardinality(KeywordTokens(t, tokens))

\* every topic has its stated score
StatedScores(text, tokens) ==
    \A t \in 1..Len(TOPIC_KEYWORDS) :
        topic_scores[t] = StatedScore(t, text, tokens)

----------------------------------------------------------------------------
(* Round-trip claims *)

\* the content line of the single user turn of the record
RoundLine ==
    GetKey(GetKey(GetKey(GetKey(data[1], "mapping"), "a"), "message"),
           "content").v

\* the line `**User**: c` of a rendered document
UserLine(c) == <<"\n">> \o STARS \o USER_NAME \o STARS_COLON \o <<" ">> \o c
               \o <<"\n">>

\* C12: a record with an empty title, a valid recent timestamp and a single
\* user turn whose content is one short plain line c yields exactly one
\* written document containing the line `**User**: c`; the segmenter returns
\* it as exactly one segment, whose tags contain the sentinel tag and whose
\* summary equals c.
C12_RoundTrip ==
    /\ stage \in {"returned", "read", "split", "organized"} =>
           /\ returned = <<1, 0>>
           /\ Cardinality(DOMAIN files) = 1
           /\ \A name \in DOMAIN files : Contains(files[name], UserLine(RoundLine))
    /\ stage \in {"split", "organized"} => Len(content_parts) = 1
    /\ stage = "organized" =>
           /\ part_index = 1
           /\ \E i \in 1..Len(tags) : tags[i] = SENTINEL_TAG
           /\ summary = RoundLine

\* the record of the scenario has gone through both programs
C12_Witness ==
    /\ stage = "organized"
    /\ RoundLine = S_HELLO
    /\ summary = S_HELLO
    /\ tags = <<SENTINEL_TAG>>
    /\ Len(content_parts) = 1

----------------------------------------------------------------------------
(* Batch claims *)

\* C13: a single conversation record given in place of a list is processed
\* as one conversation: one document is written for it, the same as if it
\* were given as a one-element list.
C13_SingleRecord ==
    (stage = "returned" /\ IsDict(json_data)
     /\ HandleEntry(json_data, filter_before_year).outcome = "processed") =>
        /\ returned = <<1, 0>>
        /\ files = (HandleEntry(json_data, filter_before_year).file_name
                    :> HandleEntry(json_data, filter_before_year).document)

\* a step that handles the next entry of data
EntryStep == stage = "loop" /\ idx' = idx + 1

\* an exception reaches the `except Exception` clause of the entry: the
\* mapping has no items(), the sort compares keys of different types, or
\* the title cannot be read
EscapingException(entry, cutoff, h) ==
    /\ IsDict(entry)
    /\ ~(IsPositiveNum(ConversationTime(entry))
         /\ YearOf(ConversationTime(entry).v) < cutoff)
    /\ Truthy(GetOr(entry, "mapping", JDict(<<>>)))
    /\ \/ ~IsDict(GetKey(entry, "mapping"))
       \/ /\ IsDict(GetKey(entry, "mapping"))
          /\ SortRaises(CollectMessages(GetKey(entry, "mapping").v, 1))
       \/ /\ h.turns # <<>>
          /\ h.outcome # "skipped_old"
          /\ \/ TitleRaises(GetOr(entry, "title", JStr(<<>>)))
             \/ /\ TitleBlank(GetOr(entry, "title", JStr(<<>>)))
                /\ FirstTitleRaises(h.turns[1].msg)

\* an exception is raised and handled before it reaches that clause: the
\* create_time string of the record does not parse, or a turn fails to
\* render
InnerException(entry, h) ==
    /\ IsDict(entry)
    /\ \/ /\ IsStr(GetOr(entry, "create_time", JNull))
          /\ ~ParseDate(GetKey(entry, "create_time").v).ok
       \/ /\ h.document # <<>>
          /\ \E i \in 1..Len(h.turns) :
                 ~IsStr(_get_message_content(h.turns[i].msg))

\* the entry is counted as skipped, nothing is written, the loop goes on
SkippedAndGoesOn ==
    /\ skipped' = skipped + 1
    /\ processed' = processed
    /\ skipped_old' = skipped_old
    /\ files' = files
    /\ stage' = "loop"

C15_OwnFilePerRecord ==
    /\ \A i, j \in 1..Len(writes) : i # j => writes[i] # writes[j]
    /\ stage = "returned" => Cardinality(DOMAIN files) = processed

\* C17: after each entry has been handled, processed + skipped + skipped_old
\* equals the number of entries handled so far and processed equals the
\* number of files written (the write operations; whether they went to
\* distinct paths is C15); the returned pair is (processed, skipped) and
\* leaves out the entries excluded as too old.
C17_EveryEntryCounted ==
    /\ processed + skipped + skipped_old = idx
    /\ processed = Len(writes)
    /\ stage = "returned" =>
           /\ idx = Len(data)
           /\ returned = <<processed, skipped>>
           /\ returned[1] + returned[2] = Len(data) - skipped_old

\* a batch with one entry written, one skipped and one excluded as too old
C17_Witness ==
    /\ stage = "returned"
    /\ Len(data) = 3
    /\ processed = 1 /\ skipped = 1 /\ skipped_old = 1
    /\ returned = <<1, 1>>

====
